---- MODULE Spec2Model ----
(***************************************************************************)
(* OpenSLO Studio: the editor state of src/App.tsx (sloState, errors,      *)
(* yamlOutput, savedItems, localStorage), its handlers, and the pure       *)
(* validator validateState.                                                *)
(*                                                                         *)
(* Representation.  A JavaScript string is a TLA+ string; its characters   *)
(* are read with SubSeq.  An optional property (declared with `?`, or      *)
(* possibly missing from a parsed object) is None (<<>>) or Some(v)        *)
(* (<<v>>).  A JavaScript number is a record [t, n, d]: t is "number" for  *)
(* the rational n/d (d > 0), or "NaN", "undefined", "null".                *)
(***************************************************************************)
EXTENDS Integers, Sequences, FiniteSets, TLC

VARIABLES
    sloState,      \* useState<SloState>(DEFAULT_SLO_STATE)      App.tsx:29
    yamlOutput,    \* useState<string>('')                        App.tsx:30
    copySuccess,   \* useState(false)                             App.tsx:31
    errors,        \* useState<Record<string,string>>({})         App.tsx:32
    savedItems,    \* useState<SloState[]>([])                    App.tsx:35
    showLibrary,   \* useState(false)                             App.tsx:36
    localStorage,  \* the item 'openslo_items': None, or the list written
    clipboard,     \* navigator.clipboard: None, or the text written
    download,      \* the file handed to the browser: None, or [name, content]
    uuids,         \* how many identifiers crypto.randomUUID() has produced
    assignedId,    \* history: the identifier the configuration being edited
                   \* received at a save or carries from the library, "" if none
    steps,         \* how many handlers have run
    pc             \* "app" in the editor; "input" | "validated" | "threw"
                   \* where validateState is applied on its own; "input" |
                   \* "rendered" where generateYaml is

vars == <<sloState, yamlOutput, copySuccess, errors, savedItems, showLibrary,
          localStorage, clipboard, download, uuids, assignedId, steps, pc>>

---------------------------------------------------------------------------
(* Bounds *)

MaxNameLen == 3
MaxSteps == 3

---------------------------------------------------------------------------
(* Optional values *)

None == <<>>
Some(v) == <<v>>
IsSome(o) == o # <<>>
TheVal(o) == o[1]

---------------------------------------------------------------------------
(* JavaScript numbers *)

Num(n, d) == [t |-> "number", n |-> n, d |-> d]
IntNum(n) == Num(n, 1)
NaN == [t |-> "NaN", n |-> 0, d |-> 1]
Undefined == [t |-> "undefined", n |-> 0, d |-> 1]
Null == [t |-> "null", n |-> 0, d |-> 1]

\* as IsNullish, but a falsy test (!x): 0 and NaN count as missing
IsNullish_falsy(x) == x.t \in {"undefined", "null", "NaN"} \/ x.n = 0

\* x === undefined || x === null
IsNullish(x) == x.t \in {"undefined", "null"}

\* x < k for an integer literal k; any comparison with NaN is false
NumLt(x, k) == x.t = "number" /\ x.n < k * x.d

\* as NumGt, but >= : the upper boundary itself is rejected
NumGt_inclusive(x, k) == x.t = "number" /\ x.n >= k * x.d

\* x > k
NumGt(x, k) == x.t = "number" /\ x.n > k * x.d

\* x <= k  (null converts to 0, undefined to NaN)
NumLe(x, k) ==
    \/ x.t = "number" /\ x.n <= k * x.d
    \/ x.t = "null" /\ 0 <= k

\* !x for a number-typed value
NumFalsy(x) == x.t \in {"undefined", "null", "NaN"} \/ x.n = 0

\* as NumberIsInteger, but any number passes (integrality not tested)
NumberIsInteger_anyNumber(x) == x.t = "number"

\* Number.isInteger(x)
NumberIsInteger(x) == x.t = "number" /\ x.n % x.d = 0

---------------------------------------------------------------------------
(* JavaScript strings *)

LowerChars == {"a", "b", "c", "d", "e", "f", "g", "h", "i", "j", "k", "l", "m",
               "n", "o", "p", "q", "r", "s", "t", "u", "v", "w", "x", "y", "z"}
DigitChars == {"0", "1", "2", "3", "4", "5", "6", "7", "8", "9"}
WhiteSpaceChars == {" ", "\t", "\n", "\r"}

CharAt(s, i) == SubSeq(s, i, i)

RECURSIVE TrimStart(_)
TrimStart(s) ==
    IF Len(s) = 0 THEN s
    ELSE IF CharAt(s, 1) \in WhiteSpaceChars THEN TrimStart(SubSeq(s, 2, Len(s)))
    ELSE s

RECURSIVE TrimEnd(_)
TrimEnd(s) ==
    IF Len(s) = 0 THEN s
    ELSE IF CharAt(s, Len(s)) \in WhiteSpaceChars THEN TrimEnd(SubSeq(s, 1, Len(s) - 1))
    ELSE s

\* String.prototype.trim
Trim(s) == TrimEnd(TrimStart(s))

\* !s  for a string
StrFalsy(s) == Len(s) = 0

\* /^[a-z0-9]([-a-z0-9]*[a-z0-9])?$/.test(s), run as the automaton of the
\* expression: "start" -[a-z0-9]-> "alnum" (accepting);
\* "alnum" -[a-z0-9]-> "alnum"; "alnum" | "hyphen" - "-" -> "hyphen";
\* "hyphen" -[a-z0-9]-> "alnum".  Without the m flag $ is the end of input.
RECURSIVE k8sRun(_, _, _)
k8sRun(s, i, q) ==
    IF i > Len(s) THEN q = "alnum"
    ELSE LET c == CharAt(s, i) IN
         IF c \in LowerChars \cup DigitChars THEN k8sRun(s, i + 1, "alnum")
         ELSE IF c = "-" /\ q # "start" THEN k8sRun(s, i + 1, "hyphen")
         ELSE FALSE

\* as k8sNameRegexTest, but for /^[-a-z0-9]*$/ : hyphens allowed anywhere
k8sNameRegexTest_anyHyphen(s) ==
    \A i \in 1..Len(s) : CharAt(s, i) \in LowerChars \cup DigitChars \cup {"-"}

k8sNameRegexTest(s) == k8sRun(s, 1, "start")

\* first index >= i of s that holds a character outside cs, Len(s)+1 if none
RECURSIVE SkipChars(_, _, _)
SkipChars(s, i, cs) ==
    IF i > Len(s) \/ CharAt(s, i) \notin cs THEN i ELSE SkipChars(s, i + 1, cs)

\* the indices of the line breaks of s
NewlineIndices(s) == {i \in 1..Len(s) : CharAt(s, i) = "\n"}

\* s.split('\n'): the k-th piece runs from after the (k-1)-th line break
\* to before the k-th
SplitLines(s) ==
    LET nls == NewlineIndices(s)
        n == Cardinality(nls)
        pos == [k \in 1..n |-> CHOOSE i \in nls : Cardinality({j \in nls : j < i}) = k - 1]
    IN  [k \in 1..(n + 1) |->
            SubSeq(s, IF k = 1 THEN 1 ELSE pos[k - 1] + 1,
                      IF k = n + 1 THEN Len(s) ELSE pos[k] - 1)]

\* /^\s*$/ on one line: nothing but white space
IsBlankLine(line) == \A i \in 1..Len(line) : CharAt(line, i) \in WhiteSpaceChars

\* Texts.  A text that is built up and taken apart line by line (the
\* rendered document and its blocks) is held as the list of its lines, that
\* is as text.split('\n'): the empty text is <<"">>, and putting '\n' between
\* two texts is \o on the lists.

\* the text of a string
Text(str) == SplitLines(str)

\* a + b on texts: the last line of a and the first line of b become one line
ConcatText(a, b) ==
    SubSeq(a, 1, Len(a) - 1) \o <<a[Len(a)] \o b[1]>> \o Tail(b)

\* `prefix${text}`, prefix holding no line break
Row(prefix, text) == <<prefix \o text[1]>> \o Tail(text)

\* as RemoveEmptyLines, but nothing is removed
RemoveEmptyLines_keepAll(text) == text

\* text.replace(/^\s*\n/gm, '').  With the m flag a match starts at a line
\* start; \s* takes the longest run of white space from there (line breaks
\* included) and gives back to the last line break of the run, which ends
\* the match.  So a match is a maximal run of lines that hold nothing but
\* white space and are each followed by a line break, and every such line
\* lies in a match; the leading white space of the line after the run is not
\* part of it.  What is removed is every white-space-only line but the last
\* line of the text.
RemoveEmptyLines(text) ==
    LET n == Len(text)
        kept(line) == ~IsBlankLine(line)
    IN  SelectSeq(SubSeq(text, 1, n - 1), kept) \o <<text[n]>>

---------------------------------------------------------------------------
(* Numbers and text *)

RECURSIVE Gcd(_, _)
Gcd(a, b) == IF b = 0 THEN a ELSE Gcd(b, a % b)

Abs(n) == IF n < 0 THEN 0 - n ELSE n

\* the number n/d in lowest terms
Ratio(n, d) == LET g == Gcd(Abs(n), d) IN Num(n \div g, d \div g)

DigitString(k) ==
    CASE k = 0 -> "0" [] k = 1 -> "1" [] k = 2 -> "2" [] k = 3 -> "3" [] k = 4 -> "4"
      [] k = 5 -> "5" [] k = 6 -> "6" [] k = 7 -> "7" [] k = 8 -> "8" [] k = 9 -> "9"

DigitValue(c) ==
    CASE c = "0" -> 0 [] c = "1" -> 1 [] c = "2" -> 2 [] c = "3" -> 3 [] c = "4" -> 4
      [] c = "5" -> 5 [] c = "6" -> 6 [] c = "7" -> 7 [] c = "8" -> 8 [] c = "9" -> 9

RECURSIVE NatToString(_)
NatToString(n) ==
    IF n < 10 THEN DigitString(n) ELSE NatToString(n \div 10) \o DigitString(n % 10)

\* the decimal digits of r/d, 0 <= r < d, for a d that divides a power of ten
RECURSIVE FractionDigits(_, _)
FractionDigits(r, d) ==
    IF r = 0 THEN ""
    ELSE DigitString((r * 10) \div d) \o FractionDigits((r * 10) % d, d)

\* `${x}` for a number-typed value: Number::toString for the finite decimals
\* the editor can hold, and the names of the three non-numbers.
NumberToString(x) ==
    IF x.t # "number" THEN x.t
    ELSE LET a == Abs(x.n)
             int == NatToString(a \div x.d)
             frac == FractionDigits(a % x.d, x.d)
         IN  (IF x.n < 0 THEN "-" ELSE "")
             \o int \o (IF frac = "" THEN "" ELSE "." \o frac)

\* `${b}` for a boolean
BooleanToString(b) == IF b THEN "true" ELSE "false"

\* the value of the digits of s in i..j-1
RECURSIVE DigitsValue(_, _, _)
DigitsValue(s, i, j) ==
    IF j <= i THEN 0
    ELSE DigitsValue(s, i, j - 1) * 10 + DigitValue(CharAt(s, j - 1))

RECURSIVE Pow10(_)
Pow10(k) == IF k = 0 THEN 1 ELSE 10 * Pow10(k - 1)

\* parseInt(s): leading white space, a sign, then the longest run of digits;
\* NaN when there is no digit.
parseInt(s) ==
    LET a == SkipChars(s, 1, WhiteSpaceChars)
        neg == a <= Len(s) /\ CharAt(s, a) = "-"
        b == IF a <= Len(s) /\ CharAt(s, a) \in {"-", "+"} THEN a + 1 ELSE a
        c == SkipChars(s, b, DigitChars)
    IN  IF c = b THEN NaN
        ELSE IntNum((IF neg THEN -1 ELSE 1) * DigitsValue(s, b, c))

\* parseFloat(s) for decimal literals without exponent: leading white space,
\* a sign, digits, a point and digits; NaN when there is no digit.
parseFloat(s) ==
    LET a == SkipChars(s, 1, WhiteSpaceChars)
        neg == a <= Len(s) /\ CharAt(s, a) = "-"
        b == IF a <= Len(s) /\ CharAt(s, a) \in {"-", "+"} THEN a + 1 ELSE a
        c == SkipChars(s, b, DigitChars)
        hasPoint == c <= Len(s) /\ CharAt(s, c) = "."
        f == IF hasPoint THEN SkipChars(s, c + 1, DigitChars) ELSE c
        nfrac == IF hasPoint THEN f - (c + 1) ELSE 0
    IN  IF c = b /\ nfrac = 0 THEN NaN
        ELSE Ratio((IF neg THEN -1 ELSE 1)
                     * (DigitsValue(s, b, c) * Pow10(nfrac)
                        + (IF hasPoint THEN DigitsValue(s, c + 1, f) ELSE 0)),
                   Pow10(nfrac))

---------------------------------------------------------------------------
(* Records keyed by strings: Record<string,string> and object spread *)

EmptyMap == [k \in {} |-> ""]

\* as Put, but an entry already there is kept: a later rule is skipped once
\* an earlier one has failed
Put_skipAfterFirst(m, k, v) == IF DOMAIN m # {} THEN m ELSE [x \in {k} |-> v]

\* obj[k] = v
Put(m, k, v) == [x \in (DOMAIN m) \cup {k} |-> IF x = k THEN v ELSE m[x]]

\* { ...a, ...b }
Spread(a, b) == [x \in (DOMAIN a) \cup (DOMAIN b) |-> IF x \in DOMAIN b THEN b[x] ELSE a[x]]

\* Object.keys(m)
Keys(m) == DOMAIN m

---------------------------------------------------------------------------
(* types.ts *)

MetricSource(type, query) == [type |-> type, query |-> query]

DEFAULT_SLO_STATE ==
    [ id |-> "",
      apiVersion |-> "openslo/v1",
      kind |-> "SLO",
      name |-> "my-service-availability",
      displayName |-> "My Service Availability",
      description |-> "Availability SLO for the core API service",
      service |-> "core-api",
      app |-> "",
      budgetingMethod |-> "occurrences",
      target |-> Num(999, 1000),
      timeWindowCount |-> IntNum(28),
      timeWindowUnit |-> "d",
      timeWindowRolling |-> TRUE,
      indicatorMode |-> "inline",
      indicatorRef |-> None,
      indicatorType |-> "threshold",
      ratioMetric |-> None,
      thresholdMetric |-> Some(
          [ source |-> MetricSource("prometheus",
                Some("http_request_duration_seconds_bucket{le=\"0.5\"}")),
            operator |-> "lte",
            value |-> Num(1, 2) ]) ]

TEMPLATES ==
    [ availability |->
        [ kind |-> "SLO",
          name |-> "api-availability",
          displayName |-> "API Availability",
          description |-> "Percentage of successful requests",
          budgetingMethod |-> "occurrences",
          target |-> Num(999, 1000),
          indicatorMode |-> "inline",
          indicatorType |-> "ratio",
          ratioMetric |-> Some(
              [ good |-> Some(MetricSource("prometheus",
                    Some("sum(rate(http_requests_total{status!~\"5..\"}[5m]))"))),
                bad |-> None,
                total |-> MetricSource("prometheus",
                    Some("sum(rate(http_requests_total[5m]))")) ]) ],
      latency |->
        [ kind |-> "SLO",
          name |-> "api-latency",
          displayName |-> "API Latency",
          description |-> "99% of requests served within 200ms",
          budgetingMethod |-> "occurrences",
          target |-> Num(99, 100),
          indicatorMode |-> "inline",
          indicatorType |-> "threshold",
          thresholdMetric |-> Some(
              [ source |-> MetricSource("prometheus",
                    Some("histogram_quantile(0.99, sum(rate(http_request_duration_seconds_bucket[5m])) by (le))")),
                operator |-> "lte",
                value |-> Num(1, 5) ]) ],
      sliReference |->
        [ kind |-> "SLO",
          name |-> "worker-latency-slo",
          displayName |-> "Worker Latency",
          description |-> "SLO referencing a shared SLI",
          target |-> Num(99, 100),
          indicatorMode |-> "reference",
          indicatorRef |-> Some("worker-latency-sli") ],
      standaloneSli |->
        [ kind |-> "SLI",
          name |-> "shared-error-sli",
          displayName |-> "Shared Error SLI",
          description |-> "Standard error rate SLI used by multiple services",
          indicatorType |-> "ratio",
          ratioMetric |-> Some(
              [ good |-> None,
                bad |-> Some(MetricSource("prometheus",
                    Some("sum(rate(errors_total[5m]))"))),
                total |-> MetricSource("prometheus",
                    Some("sum(rate(requests_total[5m]))")) ]) ] ]

---------------------------------------------------------------------------
(* validateState, App.tsx:51-112 *)

\* src.query.trim() raises a TypeError when the query property is missing
QueryThrows(src) == ~IsSome(src.query)

\* !src.query.trim()
QueryBlank(src) == StrFalsy(Trim(TheVal(src.query)))

\* as validateMetrics, but the metrics are validated in reference mode too
validateMetrics_always(state) == TRUE

\* state.kind === 'SLI' || (state.kind === 'SLO' && state.indicatorMode === 'inline')
validateMetrics(state) ==
    state.kind = "SLI" \/ (state.kind = "SLO" /\ state.indicatorMode = "inline")

\* TRUE when the call raises instead of returning: the optional chains stop
\* at a missing thresholdMetric, ratioMetric, good or bad, but not at a
\* missing query of a source that is there.
validateStateThrows(state) ==
    /\ validateMetrics(state)
    /\ \/ /\ state.indicatorType = "threshold"
          /\ IsSome(state.thresholdMetric)
          /\ QueryThrows(TheVal(state.thresholdMetric).source)
       \/ /\ state.indicatorType = "ratio"
          /\ IsSome(state.ratioMetric)
          /\ LET rm == TheVal(state.ratioMetric) IN
             \/ QueryThrows(rm.total)
             \/ IsSome(rm.good) /\ QueryThrows(TheVal(rm.good))
             \/ IsSome(rm.bad) /\ QueryThrows(TheVal(rm.bad))

\* Each rule takes newErrors as the statements before it have left it and
\* gives it back as its own statements leave it.

\* Metadata Validation: name
nameRule(newErrors, state) ==
    IF StrFalsy(Trim(state.name))
    THEN Put(newErrors, "name", "Name is required")
    ELSE IF ~k8sNameRegexTest(state.name)
    THEN Put(newErrors, "name", "Must be lowercase alphanumeric (kebab-case)")
    ELSE newErrors

displayNameRule(newErrors, state) ==
    IF StrFalsy(Trim(state.displayName))
    THEN Put(newErrors, "displayName", "Display Name is required")
    ELSE newErrors

serviceRule(newErrors, state) ==
    IF StrFalsy(Trim(state.service))
    THEN Put(newErrors, "service", "Service is required")
    ELSE newErrors

\* Objective Validation
targetRule(newErrors, state) ==
    IF IsNullish(state.target)
    THEN Put(newErrors, "target", "Target is required")
    ELSE IF NumLt(state.target, 0) \/ NumGt(state.target, 1)
    THEN Put(newErrors, "target", "Must be between 0.0 and 1.0")
    ELSE newErrors

timeWindowCountRule(newErrors, state) ==
    IF \/ NumFalsy(state.timeWindowCount)
       \/ NumLe(state.timeWindowCount, 0)
       \/ ~NumberIsInteger(state.timeWindowCount)
    THEN Put(newErrors, "timeWindowCount", "Must be a positive integer")
    ELSE newErrors

\* Indicator Reference Validation
indicatorRefRule(newErrors, state) ==
    IF /\ state.indicatorMode = "reference"
       /\ (~IsSome(state.indicatorRef) \/ StrFalsy(Trim(TheVal(state.indicatorRef))))
    THEN Put(newErrors, "indicatorRef", "SLI Reference name is required")
    ELSE newErrors

\* SLO-only validation
sloRules(newErrors, state) ==
    IF state.kind = "SLO"
    THEN indicatorRefRule(
             timeWindowCountRule(
                 targetRule(serviceRule(newErrors, state), state), state), state)
    ELSE newErrors

thresholdQueryRule(newErrors, state) ==
    IF \/ ~IsSome(state.thresholdMetric)
       \/ QueryBlank(TheVal(state.thresholdMetric).source)
    THEN Put(newErrors, "thresholdQuery", "Query is required")
    ELSE newErrors

thresholdValueRule(newErrors, state) ==
    IF \/ ~IsSome(state.thresholdMetric)
       \/ IsNullish(TheVal(state.thresholdMetric).value)
    THEN Put(newErrors, "thresholdValue", "Threshold value is required")
    ELSE newErrors

ratioTotalRule(newErrors, state) ==
    IF \/ ~IsSome(state.ratioMetric)
       \/ QueryBlank(TheVal(state.ratioMetric).total)
    THEN Put(newErrors, "ratioTotal", "Total query is required")
    ELSE newErrors

\* as hasQuery, but only a good query counts
hasQuery_goodOnly(ratioMetric, side) ==
    /\ side = "good"
    /\ IsSome(ratioMetric)
    /\ IsSome(TheVal(ratioMetric)[side])
    /\ ~QueryBlank(TheVal(TheVal(ratioMetric)[side]))

\* !!ratioMetric?.good?.query.trim(), and the same for bad
hasQuery(ratioMetric, side) ==
    /\ IsSome(ratioMetric)
    /\ IsSome(TheVal(ratioMetric)[side])
    /\ ~QueryBlank(TheVal(TheVal(ratioMetric)[side]))

ratioGoodBadRule(newErrors, state) ==
    LET hasGood == hasQuery(state.ratioMetric, "good")
        hasBad == hasQuery(state.ratioMetric, "bad")
    IN  IF ~hasGood /\ ~hasBad
        THEN Put(newErrors, "ratioGoodBad", "Either Good or Bad metric query is required")
        ELSE newErrors

\* Metric Validation (Only for SLI OR SLO Inline)
metricRules(newErrors, state) ==
    IF ~validateMetrics(state) THEN newErrors
    ELSE IF state.indicatorType = "threshold"
    THEN thresholdValueRule(thresholdQueryRule(newErrors, state), state)
    ELSE IF state.indicatorType = "ratio"
    THEN ratioGoodBadRule(ratioTotalRule(newErrors, state), state)
    ELSE newErrors

validateState(state) ==
    metricRules(
        sloRules(displayNameRule(nameRule(EmptyMap, state), state), state), state)

---------------------------------------------------------------------------
(* generateYaml, utils/yamlGenerator.  The template literals are written   *)
(* row by row: a list of lines for the fixed lines, Row for a line that    *)
(* ends in an interpolation (every interpolation of the source ends its    *)
(* line).                                                                  *)

\* `${q}` for a query property that may be missing
QueryText(src) == IF IsSome(src.query) THEN Text(TheVal(src.query)) ELSE <<"undefined">>

\* `good: ...` / `bad: ...`, the inner template of the ratio block
RatioEntry(key, src) ==
    <<key \o ":", "    metricSource:">>
        \o Row("      type: ", Text(src.type))
        \o <<"      spec:", "        query: >-">>
        \o Row("          ", QueryText(src))

\* 1. Build the Metric YAML block (reused by both SLO-Inline and SLI)
metricBlock(state) ==
    IF state.indicatorType = "threshold" /\ IsSome(state.thresholdMetric)
    THEN LET tm == TheVal(state.thresholdMetric) IN
         <<"thresholdMetric:", "  metricSource:">>
            \o Row("    type: ", Text(tm.source.type))
            \o <<"    spec:", "      query: >-">>
            \o Row("        ", QueryText(tm.source))
            \o Row("  operator: ", Text(tm.operator))
            \o Row("  value: ", Text(NumberToString(tm.value)))
    ELSE IF state.indicatorType = "ratio" /\ IsSome(state.ratioMetric)
    THEN LET rm == TheVal(state.ratioMetric) IN
         <<"ratioMetric:">>
            \o Row("  ", IF IsSome(rm.good) THEN RatioEntry("good", TheVal(rm.good)) ELSE <<"">>)
            \o Row("  ", IF IsSome(rm.bad) THEN RatioEntry("bad", TheVal(rm.bad)) ELSE <<"">>)
            \o <<"  total:", "    metricSource:">>
            \o Row("      type: ", Text(rm.total.type))
            \o <<"      spec:", "        query: >-">>
            \o Row("          ", QueryText(rm.total))
    ELSE <<"">>

\* as indentedMetric, but the block is not indented
indentedMetric_flat(block, indent) == block

\* block.split('\n').map(line => `${indent}${line}`).join('\n')
indentedMetric(block, indent) == [k \in 1..Len(block) |-> indent \o block[k]]

\* as metadataLabels, but the labels are written for every app value
metadataLabels_always(state) ==
    <<"", "  labels:">> \o Row("    app: ", Text(state.app))

\* Prepare metadata labels
metadataLabels(state) ==
    IF ~StrFalsy(state.app) /\ ~StrFalsy(Trim(state.app))
    THEN <<"", "  labels:">> \o Row("    app: ", Text(state.app))
    ELSE <<"">>

\* as indicatorSection, but the indicator is always written in place
indicatorSection_inline(state, block) ==
    <<"  indicator:">> \o indentedMetric(block, "    ")

indicatorSection(state, block) ==
    IF /\ state.indicatorMode = "reference"
       /\ IsSome(state.indicatorRef)
       /\ ~StrFalsy(TheVal(state.indicatorRef))
    THEN Row("  indicatorRef: ", Text(TheVal(state.indicatorRef)))
    ELSE <<"  indicator:">> \o indentedMetric(block, "    ")

generateYaml(state) ==
    LET block == RemoveEmptyLines(metricBlock(state))
        head(kind) ==
            Row("apiVersion: ", Text(state.apiVersion))
                \o <<"kind: " \o kind, "metadata:">>
                \o Row("  name: ", Text(state.name))
                \o Row("  displayName: ",
                       ConcatText(Text(state.displayName), metadataLabels(state)))
                \o <<"spec:">>
                \o Row("  description: ", Text(state.description))
    IN  IF state.kind = "SLI"
        THEN head("SLI") \o indentedMetric(block, "  ")
        ELSE head("SLO")
                \o Row("  service: ", Text(state.service))
                \o Row("  budgetingMethod: ", Text(state.budgetingMethod))
                \o <<"  objectives:">>
                \o Row("    - displayName: ", Text(state.displayName))
                \o Row("      target: ", Text(NumberToString(state.target)))
                \o <<"      timeWindow:">>
                \o Row("        - rolling: ", Text(BooleanToString(state.timeWindowRolling)))
                \o Row("          count: ", Text(NumberToString(state.timeWindowCount)))
                \o Row("          unit: ", Text(state.timeWindowUnit))
                \o indicatorSection(state, block)

---------------------------------------------------------------------------
(* The editor, App.tsx *)

\* what the user types or picks in each control
NameInputs == {"", "checkout"}
DisplayNameInputs == {"Checkout"}
AppInputs == {"payments"}
ServiceInputs == {""}
DescriptionInputs == {"Checkout flow"}
TargetInputs == {"", "0.95"}
TimeWindowCountInputs == {"7"}
TimeWindowUnitInputs == {"w"}
IndicatorRefInputs == {"checkout-sli"}
ThresholdQueryInputs == {"up"}
OperatorInputs == {"gt"}
ThresholdValueInputs == {""}
GoodQueryInputs == {"", "good_total"}
BadQueryInputs == {"bad_total"}
TotalQueryInputs == {"requests_total"}

\* as isValid, but the gate is always open
isValid_always == TRUE

\* const isValid = Object.keys(errors).length === 0
isValid == Cardinality(Keys(errors)) = 0

\* as SetSloState, but without the effect: the mapping and the text go stale
SetSloState_stale(next) ==
    /\ sloState' = next
    /\ UNCHANGED <<errors, yamlOutput>>

\* setSloState(next), and the effect on [sloState] that follows the render:
\* setErrors(validateState(sloState)); setYamlOutput(generateYaml(sloState)).
\* Pending effects are flushed before the next event is handled.
SetSloState(next) ==
    /\ sloState' = next
    /\ errors' = validateState(next)
    /\ yamlOutput' = generateYaml(next)

Step == steps < MaxSteps /\ steps' = steps + 1

Editor == pc = "app" /\ UNCHANGED pc

\* a field edit touches nothing but the configuration and what follows from it
EditFrame ==
    UNCHANGED <<copySuccess, savedItems, showLibrary, localStorage, clipboard,
                download, uuids, assignedId>>

\* the inputs rendered for kind SLO only (service, objectives, mode switch)
SloControls == sloState.kind = "SLO"

\* the metric builder is rendered for kind SLI or SLO inline
MetricBuilder ==
    sloState.kind = "SLI" \/ (sloState.kind = "SLO" /\ sloState.indicatorMode = "inline")

\* JSON.stringify writes NaN as null and leaves out undefined properties
JsonNumber(x) == IF x.t = "NaN" THEN Null ELSE x

JsonItem(item) ==
    [item EXCEPT
        !.target = JsonNumber(@),
        !.timeWindowCount = JsonNumber(@),
        !.thresholdMetric =
            IF IsSome(@) THEN Some([TheVal(@) EXCEPT !.value = JsonNumber(@)]) ELSE @]

JsonStringify(items) == [i \in 1..Len(items) |-> JsonItem(items[i])]

\* crypto.randomUUID(): version 4 identifiers are taken never to repeat
randomUUID(k) == "uuid-" \o NatToString(k)

\* as findIndex, but no item is ever found
findIndex_notFound(items, id) == 0

\* items.findIndex(i => i.id === id): the first such index from 1, 0 if none
findIndex(items, id) ==
    IF \E i \in 1..Len(items) : items[i].id = id
    THEN CHOOSE i \in 1..Len(items) :
            items[i].id = id /\ \A j \in 1..(i - 1) : items[j].id # id
    ELSE 0

\* items.filter(i => i.id !== id)
RECURSIVE filterOut(_, _)
filterOut(items, id) ==
    IF Len(items) = 0 THEN <<>>
    ELSE (IF items[1].id # id THEN <<items[1]>> ELSE <<>>) \o filterOut(Tail(items), id)

\* as idToUse, but an identifier is generated at every save
idToUse_regenerate(state, k) == randomUUID(k)

\* const idToUse = sloState.id || crypto.randomUUID(), k being the number of
\* the identifier the generator hands out next
idToUse(state, k) == IF StrFalsy(state.id) THEN randomUUID(k) ELSE state.id

InitApp ==
    /\ pc = "app"
    /\ sloState = DEFAULT_SLO_STATE
    /\ errors = validateState(DEFAULT_SLO_STATE)
    /\ yamlOutput = generateYaml(DEFAULT_SLO_STATE)
    /\ copySuccess = FALSE
    /\ savedItems = <<>>
    /\ showLibrary = FALSE
    /\ localStorage = None
    /\ clipboard = None
    /\ download = None
    /\ uuids = 0
    /\ assignedId = ""
    /\ steps = 0

loadTemplate(templateKey) ==
    /\ Editor /\ Step
    /\ templateKey \in DOMAIN TEMPLATES
    /\ SetSloState(Spread(Spread(sloState, TEMPLATES[templateKey]), [id |-> ""]))
    /\ assignedId' = ""
    /\ UNCHANGED <<copySuccess, savedItems, showLibrary, localStorage, clipboard,
                   download, uuids>>

saveToLibrary ==
    /\ Editor /\ Step
    /\ IF ~isValid
       THEN \* alert("Please fix validation errors before saving."); return
            UNCHANGED <<sloState, errors, yamlOutput, savedItems, localStorage,
                        uuids, assignedId>>
       ELSE LET id == idToUse(sloState, uuids + 1)
                itemToSave == [sloState EXCEPT !.id = id]
                index == findIndex(savedItems, id)
                newSavedItems == IF index >= 1
                                 THEN [savedItems EXCEPT ![index] = itemToSave]
                                 ELSE Append(savedItems, itemToSave)
            IN  /\ SetSloState(itemToSave)
                /\ savedItems' = newSavedItems
                /\ localStorage' = Some(JsonStringify(newSavedItems))
                /\ uuids' = IF id = sloState.id THEN uuids ELSE uuids + 1
                /\ assignedId' = id
    /\ UNCHANGED <<copySuccess, showLibrary, clipboard, download>>

loadFromLibrary(i) ==
    /\ Editor /\ Step
    /\ showLibrary
    /\ i \in 1..Len(savedItems)
    /\ SetSloState(savedItems[i])
    /\ showLibrary' = FALSE
    /\ assignedId' = savedItems[i].id
    /\ UNCHANGED <<copySuccess, savedItems, localStorage, clipboard, download, uuids>>

\* as deleteFromLibrary, but the configuration keeps its identifier when its
\* item is deleted
deleteFromLibrary_keepId(i, confirmed) ==
    /\ Editor /\ Step
    /\ showLibrary
    /\ i \in 1..Len(savedItems)
    /\ LET id == savedItems[i].id IN
       IF confirmed
       THEN LET newSavedItems == filterOut(savedItems, id) IN
            /\ savedItems' = newSavedItems
            /\ localStorage' = Some(JsonStringify(newSavedItems))
            /\ UNCHANGED <<sloState, errors, yamlOutput>>
       ELSE UNCHANGED <<sloState, errors, yamlOutput, savedItems, localStorage>>
    /\ UNCHANGED <<copySuccess, showLibrary, clipboard, download, uuids, assignedId>>

\* confirmed: what the user answers to confirm(...)
deleteFromLibrary(i, confirmed) ==
    /\ Editor /\ Step
    /\ showLibrary
    /\ i \in 1..Len(savedItems)
    /\ LET id == savedItems[i].id IN
       IF confirmed
       THEN LET newSavedItems == filterOut(savedItems, id) IN
            /\ savedItems' = newSavedItems
            /\ localStorage' = Some(JsonStringify(newSavedItems))
            /\ IF sloState.id = id
               THEN SetSloState([sloState EXCEPT !.id = ""])
               ELSE UNCHANGED <<sloState, errors, yamlOutput>>
       ELSE UNCHANGED <<sloState, errors, yamlOutput, savedItems, localStorage>>
    /\ UNCHANGED <<copySuccess, showLibrary, clipboard, download, uuids, assignedId>>

copyToClipboard ==
    /\ Editor /\ Step
    /\ IF ~isValid
       THEN UNCHANGED <<clipboard, copySuccess>>
       ELSE clipboard' = Some(yamlOutput) /\ copySuccess' = TRUE
    /\ UNCHANGED <<sloState, errors, yamlOutput, savedItems, showLibrary,
                   localStorage, download, uuids, assignedId>>

\* setTimeout(() => setCopySuccess(false), 2000)
copySuccessTimeout ==
    /\ Editor
    /\ copySuccess
    /\ copySuccess' = FALSE
    /\ UNCHANGED <<sloState, errors, yamlOutput, savedItems, showLibrary,
                   localStorage, clipboard, download, uuids, assignedId, steps>>

downloadYaml ==
    /\ Editor /\ Step
    /\ IF ~isValid
       THEN UNCHANGED download
       ELSE download' = Some([ name |-> (IF StrFalsy(sloState.name) THEN "config"
                                          ELSE sloState.name) \o ".yaml",
                               content |-> yamlOutput ])
    /\ UNCHANGED <<sloState, errors, yamlOutput, copySuccess, savedItems, showLibrary,
                   localStorage, clipboard, uuids, assignedId>>

\* onClick={() => setShowLibrary(!showLibrary)}
toggleLibrary ==
    /\ Editor
    /\ showLibrary' = ~showLibrary
    /\ UNCHANGED <<sloState, errors, yamlOutput, copySuccess, savedItems,
                   localStorage, clipboard, download, uuids, assignedId, steps>>

\* the thresholdMetric a type switch initialises
defaultThresholdMetric ==
    [ source |-> MetricSource("prometheus", Some("")),
      operator |-> "lte",
      value |-> Num(1, 2) ]

\* the ratioMetric a type switch initialises
defaultRatioMetric ==
    [ total |-> MetricSource("prometheus", Some("")),
      good |-> Some(MetricSource("prometheus", Some(""))),
      bad |-> None ]

\* as indicatorTypeUpdater, but the selected structure is set to its defaults
\* whether it is there or not
indicatorTypeUpdater_reset(prev, type) ==
    IF type = "threshold"
    THEN [prev EXCEPT !.indicatorType = type,
                      !.thresholdMetric = Some(defaultThresholdMetric)]
    ELSE [prev EXCEPT !.indicatorType = type,
                      !.ratioMetric = Some(defaultRatioMetric)]

\* the updater prev => ... that handleIndicatorTypeChange hands to
\* setSloState: the selected structure is initialised if it is missing
indicatorTypeUpdater(prev, type) ==
    IF type = "threshold" /\ ~IsSome(prev.thresholdMetric)
    THEN [prev EXCEPT !.indicatorType = type,
                      !.thresholdMetric = Some(defaultThresholdMetric)]
    ELSE IF type = "ratio" /\ ~IsSome(prev.ratioMetric)
    THEN [prev EXCEPT !.indicatorType = type,
                      !.ratioMetric = Some(defaultRatioMetric)]
    ELSE [prev EXCEPT !.indicatorType = type]

\* as handleIndicatorTypeChange, but a missing metric structure is not
\* initialised
handleIndicatorTypeChange_noInit(type) ==
    /\ Editor /\ Step
    /\ MetricBuilder
    /\ type \in {"threshold", "ratio"}
    /\ SetSloState([sloState EXCEPT !.indicatorType = type])
    /\ EditFrame

\* setSloState(prev => ...) of handleIndicatorTypeChange
handleIndicatorTypeChange(type) ==
    /\ Editor /\ Step
    /\ MetricBuilder
    /\ type \in {"threshold", "ratio"}
    /\ SetSloState(indicatorTypeUpdater(sloState, type))
    /\ EditFrame

setKind(kind) ==
    /\ Editor /\ Step
    /\ kind \in {"SLO", "SLI"}
    /\ SetSloState([sloState EXCEPT !.kind = kind])
    /\ EditFrame

setIndicatorMode(mode) ==
    /\ Editor /\ Step
    /\ SloControls
    /\ mode \in {"inline", "reference"}
    /\ SetSloState([sloState EXCEPT !.indicatorMode = mode])
    /\ EditFrame

editName(v) ==
    /\ Editor /\ Step
    /\ SetSloState([sloState EXCEPT !.name = v])
    /\ EditFrame

editDisplayName(v) ==
    /\ Editor /\ Step
    /\ SetSloState([sloState EXCEPT !.displayName = v])
    /\ EditFrame

editApp(v) ==
    /\ Editor /\ Step
    /\ SetSloState([sloState EXCEPT !.app = v])
    /\ EditFrame

editService(v) ==
    /\ Editor /\ Step
    /\ SloControls
    /\ SetSloState([sloState EXCEPT !.service = v])
    /\ EditFrame

editDescription(v) ==
    /\ Editor /\ Step
    /\ SetSloState([sloState EXCEPT !.description = v])
    /\ EditFrame

editTarget(text) ==
    /\ Editor /\ Step
    /\ SloControls
    /\ SetSloState([sloState EXCEPT !.target = parseFloat(text)])
    /\ EditFrame

editTimeWindowCount(text) ==
    /\ Editor /\ Step
    /\ SloControls
    /\ SetSloState([sloState EXCEPT !.timeWindowCount = parseInt(text)])
    /\ EditFrame

editTimeWindowUnit(v) ==
    /\ Editor /\ Step
    /\ SloControls
    /\ SetSloState([sloState EXCEPT !.timeWindowUnit = v])
    /\ EditFrame

editIndicatorRef(v) ==
    /\ Editor /\ Step
    /\ SloControls /\ sloState.indicatorMode = "reference"
    /\ SetSloState([sloState EXCEPT !.indicatorRef = Some(v)])
    /\ EditFrame

\* the three threshold controls read sloState.thresholdMetric! : they are
\* rendered with indicatorType threshold, where the metric is there
ThresholdControls ==
    MetricBuilder /\ sloState.indicatorType = "threshold" /\ IsSome(sloState.thresholdMetric)

editThresholdQuery(v) ==
    /\ Editor /\ Step
    /\ ThresholdControls
    /\ SetSloState([sloState EXCEPT
          !.thresholdMetric = Some([TheVal(@) EXCEPT !.source.query = Some(v)])])
    /\ EditFrame

editThresholdOperator(v) ==
    /\ Editor /\ Step
    /\ ThresholdControls
    /\ SetSloState([sloState EXCEPT
          !.thresholdMetric = Some([TheVal(@) EXCEPT !.operator = v])])
    /\ EditFrame

editThresholdValue(text) ==
    /\ Editor /\ Step
    /\ ThresholdControls
    /\ SetSloState([sloState EXCEPT
          !.thresholdMetric = Some([TheVal(@) EXCEPT !.value = parseFloat(text)])])
    /\ EditFrame

RatioControls == MetricBuilder /\ sloState.indicatorType = "ratio"

\* ...(sloState.ratioMetric || { total: { type: 'prometheus', query: '' } })
ratioMetricOrEmpty ==
    IF IsSome(sloState.ratioMetric) THEN TheVal(sloState.ratioMetric)
    ELSE [ total |-> MetricSource("prometheus", Some("")), good |-> None, bad |-> None ]

editRatioGood(v) ==
    /\ Editor /\ Step
    /\ RatioControls
    /\ SetSloState([sloState EXCEPT
          !.ratioMetric = Some([ratioMetricOrEmpty EXCEPT
                                  !.good = Some(MetricSource("prometheus", Some(v)))])])
    /\ EditFrame

editRatioBad(v) ==
    /\ Editor /\ Step
    /\ RatioControls
    /\ SetSloState([sloState EXCEPT
          !.ratioMetric = Some([ratioMetricOrEmpty EXCEPT
                                  !.bad = Some(MetricSource("prometheus", Some(v)))])])
    /\ EditFrame

editRatioTotal(v) ==
    /\ Editor /\ Step
    /\ RatioControls
    /\ SetSloState([sloState EXCEPT
          !.ratioMetric = Some([ratioMetricOrEmpty EXCEPT
                                  !.total = MetricSource("prometheus", Some(v))])])
    /\ EditFrame

Next ==
    \/ \E k \in DOMAIN TEMPLATES : loadTemplate(k)
    \/ saveToLibrary
    \/ \E i \in 1..Len(savedItems) : loadFromLibrary(i)
    \/ \E i \in 1..Len(savedItems), confirmed \in BOOLEAN : deleteFromLibrary(i, confirmed)
    \/ copyToClipboard
    \/ copySuccessTimeout
    \/ downloadYaml
    \/ toggleLibrary
    \/ \E type \in {"threshold", "ratio"} : handleIndicatorTypeChange(type)
    \/ \E kind \in {"SLO", "SLI"} : setKind(kind)
    \/ \E mode \in {"inline", "reference"} : setIndicatorMode(mode)
    \/ \E v \in NameInputs : editName(v)
    \/ \E v \in DisplayNameInputs : editDisplayName(v)
    \/ \E v \in AppInputs : editApp(v)
    \/ \E v \in ServiceInputs : editService(v)
    \/ \E v \in DescriptionInputs : editDescription(v)
    \/ \E text \in TargetInputs : editTarget(text)
    \/ \E text \in TimeWindowCountInputs : editTimeWindowCount(text)
    \/ \E v \in TimeWindowUnitInputs : editTimeWindowUnit(v)
    \/ \E v \in IndicatorRefInputs : editIndicatorRef(v)
    \/ \E v \in ThresholdQueryInputs : editThresholdQuery(v)
    \/ \E v \in OperatorInputs : editThresholdOperator(v)
    \/ \E text \in ThresholdValueInputs : editThresholdValue(text)
    \/ \E v \in GoodQueryInputs : editRatioGood(v)
    \/ \E v \in BadQueryInputs : editRatioBad(v)
    \/ \E v \in TotalQueryInputs : editRatioTotal(v)

Spec == InitApp /\ [][Next]_vars

---------------------------------------------------------------------------
(* Claims on the editor (Spec) *)

\* the configuration being edited passes validation
Exportable == Keys(validateState(sloState)) = {}

\* C2: the validation result is the sole gate for export: a save, copy or
\* download handled while the current configuration has a non-empty
\* validation result changes neither the library, the stored items, the
\* configuration, the clipboard nor the downloads; handled while the result
\* is empty, the save puts the configuration into the library and the store,
\* the copy writes the rendered text to the clipboard and the download hands
\* the rendered text to the browser.
C2_ValidationGatesExport ==
    [][ /\ (saveToLibrary \/ copyToClipboard \/ downloadYaml) /\ ~Exportable =>
              UNCHANGED <<savedItems, localStorage, sloState, clipboard, download>>
        /\ saveToLibrary /\ Exportable =>
              /\ sloState'.id # ""
              /\ sloState' = [sloState EXCEPT !.id = sloState'.id]
              /\ \E i \in 1..Len(savedItems') : savedItems'[i] = sloState'
              /\ localStorage' = Some(JsonStringify(savedItems'))
        /\ copyToClipboard /\ Exportable =>
              clipboard' = Some(generateYaml(sloState))
        /\ downloadYaml /\ Exportable =>
              /\ IsSome(download')
              /\ TheVal(download').content = generateYaml(sloState)
      ]_vars

\* a copy went through while the configuration was valid, the configuration
\* is invalid now and the three handlers can still be invoked
C2_Witness ==
    /\ pc = "app"
    /\ ~Exportable
    /\ IsSome(clipboard)
    /\ steps < MaxSteps

\* C3 as stated: once the configuration being edited has received an
\* identifier from a successful save, no later save gives it a different one.
C3_NeverRegenerated ==
    [][ saveToLibrary /\ isValid /\ assignedId # "" => sloState'.id = assignedId ]_vars

\* C3 as amended: the identifier is empty until a save; a successful save
\* of a configuration without identifier gives it one that no library item
\* carries, and a successful save never changes an identifier that is there.
\* An identifier that is there changes only by being cleared, when the
\* library item that carries it is deleted or a template is loaded, or by
\* loading a library item; after a clearing the next save assigns a new one.
C3_StableUntilCleared ==
    [][ /\ uuids = 0 => sloState.id = ""
        /\ uuids' = 0 => sloState'.id = ""
        /\ saveToLibrary /\ isValid /\ sloState.id # "" => sloState'.id = sloState.id
        /\ saveToLibrary /\ isValid /\ sloState.id = "" =>
              /\ sloState'.id # ""
              /\ \A i \in 1..Len(savedItems) : savedItems[i].id # sloState'.id
        /\ sloState.id # "" /\ sloState'.id # sloState.id =>
              \/ /\ sloState'.id = ""
                 /\ \/ \E k \in DOMAIN TEMPLATES : loadTemplate(k)
                    \/ \E i \in 1..Len(savedItems) :
                          deleteFromLibrary(i, TRUE) /\ savedItems[i].id = sloState.id
              \/ \E i \in 1..Len(savedItems) : loadFromLibrary(i)
        /\ sloState.id = "" /\ sloState'.id # "" =>
              \/ saveToLibrary /\ isValid
              \/ \E i \in 1..Len(savedItems) : loadFromLibrary(i)
      ]_vars

\* saved, the item deleted, saved again: the second identifier
C3_Witness ==
    /\ pc = "app"
    /\ assignedId = randomUUID(2)
    /\ sloState.id = randomUUID(2)
    /\ Len(savedItems) = 1
    /\ savedItems[1].id = randomUUID(2)

\* C4: loading a template yields, from any prior state, the default
\* configuration overlaid with the template's fields and the identifier
\* cleared; loading a saved item yields exactly that item, identifier kept.
C4_TemplateOverDefaults ==
    [][ /\ \A k \in DOMAIN TEMPLATES :
              loadTemplate(k) =>
                  sloState' = Spread(Spread(DEFAULT_SLO_STATE, TEMPLATES[k]), [id |-> ""])
        /\ \A i \in 1..Len(savedItems) :
              loadFromLibrary(i) => sloState' = savedItems[i]
      ]_vars

\* C7: for kind SLO a target that is not a number (the value of a cleared or
\* unparsable target field) yields a `target` entry, so the configuration is
\* not exportable.
C7_NaNTargetIsReported ==
    pc = "app" /\ sloState.kind = "SLO" /\ sloState.target.t = "NaN" =>
        "target" \in Keys(errors) /\ ~isValid

---------------------------------------------------------------------------
(* The validator as a pure function: configurations drawn from bounded     *)
(* sets, one action that applies validateState.                            *)

NameAlphabet == {"a", "1", "-", "A", "_", " "}

RECURSIVE StringsOfLen(_)
StringsOfLen(n) ==
    IF n = 0 THEN {""}
    ELSE {s \o c : s \in StringsOfLen(n - 1), c \in NameAlphabet}

ExampleNames ==
    {"my-service", "a", "a1-b2", "My-Service", "-abc", "abc-", "ab_c", "", " abc", "abc "}

NameValues == (UNION {StringsOfLen(k) : k \in 0..MaxNameLen}) \cup ExampleNames

TargetValues ==
    {Undefined, Null, NaN, Num(-1, 10000), IntNum(-1), IntNum(0), Num(1, 2),
     Num(999, 1000), IntNum(1), Num(10001, 10000), IntNum(2)}

CountValues ==
    {Undefined, Null, NaN, IntNum(0), IntNum(-5), Num(-5, 2), Num(1, 2),
     Num(5, 2), IntNum(1), IntNum(28)}

NameSamples == {"a1-b2", "  ", "ab_c"}
DisplayNameSamples == {"My Service", " "}
ServiceSamples == {"core-api", ""}
TargetSamples == {Num(999, 1000), Undefined, Num(10001, 10000)}
CountSamples == {IntNum(1), IntNum(0), Num(5, 2)}
IndicatorRefSamples == {None, Some(" "), Some("worker-latency-sli")}

ThresholdMetricValues ==
    {Some([source |-> MetricSource("prometheus", Some(q)), operator |-> "lte", value |-> v]) :
        q \in {"", " \n", "up"}, v \in {Undefined, Null, NaN, IntNum(0), Num(1, 2)}}
    \cup {None}

OptSourceValues == {None, Some(MetricSource("prometheus", Some(""))),
                    Some(MetricSource("prometheus", Some("good_total")))}

RatioMetricValues ==
    {Some([good |-> g, bad |-> b, total |-> MetricSource("prometheus", Some(t))]) :
        g \in OptSourceValues, b \in OptSourceValues, t \in {" ", "requests_total"}}
    \cup {None}

\* Sources whose query property is missing (objects parsed from storage or
\* produced by a collaborator need not carry it).
MissingQueryThreshold ==
    {Some([source |-> MetricSource("prometheus", None), operator |-> "lte", value |-> IntNum(0)])}

MissingQueryRatio ==
    {Some([good |-> g, bad |-> None, total |-> MetricSource("prometheus", t)]) :
        g \in {None, Some(MetricSource("prometheus", None))},
        t \in {None, Some("requests_total")}}

\* every combination of passing and failing values of the validated fields
RuleInputs ==
    { Spread(DEFAULT_SLO_STATE, r) :
        r \in [ kind : {"SLO", "SLI"},
                name : NameSamples,
                displayName : DisplayNameSamples,
                service : ServiceSamples,
                target : TargetSamples,
                timeWindowCount : CountSamples,
                indicatorMode : {"inline", "reference"},
                indicatorRef : IndicatorRefSamples,
                indicatorType : {"threshold"},
                thresholdMetric : ThresholdMetricValues,
                ratioMetric : {None, TEMPLATES.availability.ratioMetric} ]
          \cup
              [ kind : {"SLO", "SLI"},
                name : NameSamples,
                displayName : DisplayNameSamples,
                service : ServiceSamples,
                target : TargetSamples,
                timeWindowCount : CountSamples,
                indicatorMode : {"inline", "reference"},
                indicatorRef : IndicatorRefSamples,
                indicatorType : {"ratio"},
                thresholdMetric : {None, DEFAULT_SLO_STATE.thresholdMetric},
                ratioMetric : RatioMetricValues ] }

\* one field swept over its whole value set, the rest from the default
SweepInputs ==
    { Spread(DEFAULT_SLO_STATE, r) :
        r \in [ kind : {"SLO", "SLI"}, name : NameValues ]
          \cup [ kind : {"SLO", "SLI"}, target : TargetValues ]
          \cup [ kind : {"SLO", "SLI"}, timeWindowCount : CountValues ]
          \cup [ kind : {"SLO", "SLI"}, indicatorMode : {"inline", "reference"},
                 indicatorType : {"threshold", "ratio"},
                 thresholdMetric : MissingQueryThreshold,
                 ratioMetric : MissingQueryRatio ] }

ValidatorInputs == RuleInputs \cup SweepInputs

InitValidator ==
    /\ pc = "input"
    /\ sloState \in ValidatorInputs
    /\ errors = EmptyMap
    /\ yamlOutput = <<"">>
    /\ copySuccess = FALSE
    /\ savedItems = <<>>
    /\ showLibrary = FALSE
    /\ localStorage = None
    /\ clipboard = None
    /\ download = None
    /\ uuids = 0
    /\ assignedId = ""
    /\ steps = 0

\* const result = validateState(state), or the TypeError it raises
Validate ==
    /\ pc = "input"
    /\ IF validateStateThrows(sloState)
       THEN pc' = "threw" /\ UNCHANGED errors
       ELSE pc' = "validated" /\ errors' = validateState(sloState)
    /\ UNCHANGED <<sloState, yamlOutput, copySuccess, savedItems, showLibrary,
                   localStorage, clipboard, download, uuids, assignedId, steps>>

NextValidator == Validate

SpecValidator == InitValidator /\ [][NextValidator]_vars

---------------------------------------------------------------------------
(* The renderer as a pure function: configurations drawn from bounded      *)
(* sets, one action that applies generateYaml.                             *)

\* queries as the textareas can hold them: one line, empty, several lines
\* with an empty line between, lines with leading white space
QuerySamples == {"up", "", "a\n\nb", "  x\n  y"}

RenderThresholdValues ==
    {Some([source |-> MetricSource("prometheus", Some(q)), operator |-> "lte", value |-> v]) :
        q \in QuerySamples, v \in {Num(1, 2), NaN}}
    \cup {None, DEFAULT_SLO_STATE.thresholdMetric}

RenderSourceValues ==
    {None} \cup {Some(MetricSource("prometheus", Some(q))) : q \in {"", "events_total", "e1\n\ne2"}}

RenderRatioValues ==
    {Some([good |-> g, bad |-> b, total |-> MetricSource("prometheus", Some(t))]) :
        g \in RenderSourceValues, b \in RenderSourceValues,
        t \in {"", "requests_total", "t1\n t2"}}
    \cup {None}

RenderInputs ==
    { Spread(DEFAULT_SLO_STATE, r) :
        r \in [ kind : {"SLO", "SLI"},
                app : {"", "  ", "payments"},
                description : {DEFAULT_SLO_STATE.description, "line one\nline two"},
                target : {Num(999, 1000), NaN},
                indicatorMode : {"inline", "reference"},
                indicatorRef : {None, Some(""), Some("worker-latency-sli")},
                indicatorType : {"threshold"},
                thresholdMetric : RenderThresholdValues,
                ratioMetric : {None} ]
          \cup
              [ kind : {"SLO", "SLI"},
                app : {"", "  ", "payments"},
                description : {DEFAULT_SLO_STATE.description, "line one\nline two"},
                target : {Num(999, 1000), NaN},
                indicatorMode : {"inline", "reference"},
                indicatorRef : {None, Some(""), Some("worker-latency-sli")},
                indicatorType : {"ratio"},
                thresholdMetric : {DEFAULT_SLO_STATE.thresholdMetric},
                ratioMetric : RenderRatioValues ] }

InitRenderer ==
    /\ pc = "input"
    /\ sloState \in RenderInputs
    /\ errors = EmptyMap
    /\ yamlOutput = <<"">>
    /\ copySuccess = FALSE
    /\ savedItems = <<>>
    /\ showLibrary = FALSE
    /\ localStorage = None
    /\ clipboard = None
    /\ download = None
    /\ uuids = 0
    /\ assignedId = ""
    /\ steps = 0

\* const text = generateYaml(state)
Render ==
    /\ pc = "input"
    /\ pc' = "rendered"
    /\ yamlOutput' = generateYaml(sloState)
    /\ UNCHANGED <<sloState, errors, copySuccess, savedItems, showLibrary,
                   localStorage, clipboard, download, uuids, assignedId, steps>>

NextRenderer == Render

SpecRenderer == InitRenderer /\ [][NextRenderer]_vars

---------------------------------------------------------------------------
(* The rules of the validator as the specification words them (section     *)
(* 4.1), stated on the configuration and not on the code's steps.          *)

UpperChars == {"A", "B", "C", "D", "E", "F", "G", "H", "I", "J", "K", "L", "M",
               "N", "O", "P", "Q", "R", "S", "T", "U", "V", "W", "X", "Y", "Z"}

\* blank after trimming: nothing but white space
Blank(s) == \A i \in 1..Len(s) : CharAt(s, i) \in WhiteSpaceChars

\* lowercase alphanumerics and hyphens, no leading or trailing hyphen, not empty
IsKebab(s) ==
    /\ Len(s) >= 1
    /\ \A i \in 1..Len(s) : CharAt(s, i) \in LowerChars \cup DigitChars \cup {"-"}
    /\ CharAt(s, 1) # "-"
    /\ CharAt(s, Len(s)) # "-"

\* the indicator is defined in place
InPlace(c) == c.kind = "SLI" \/ (c.kind = "SLO" /\ c.indicatorMode = "inline")

\* a source is there and its query is not blank
HasQuery(optSrc) ==
    /\ IsSome(optSrc)
    /\ IsSome(TheVal(optSrc).query)
    /\ ~Blank(TheVal(TheVal(optSrc).query))

PositiveInteger(x) == x.t = "number" /\ x.n > 0 /\ x.n % x.d = 0

ValidationKeys ==
    {"name", "displayName", "service", "target", "timeWindowCount", "indicatorRef",
     "thresholdQuery", "thresholdValue", "ratioTotal", "ratioGoodBad"}

RuleFails(k, c) ==
    CASE k = "name" -> Blank(c.name) \/ ~IsKebab(c.name)
      [] k = "displayName" -> Blank(c.displayName)
      [] k = "service" -> c.kind = "SLO" /\ Blank(c.service)
      [] k = "target" ->
            /\ c.kind = "SLO"
            /\ \/ c.target.t \in {"undefined", "null"}
               \/ c.target.t = "number" /\ (c.target.n < 0 \/ c.target.n > c.target.d)
      [] k = "timeWindowCount" -> c.kind = "SLO" /\ ~PositiveInteger(c.timeWindowCount)
      [] k = "indicatorRef" ->
            /\ c.kind = "SLO" /\ c.indicatorMode = "reference"
            /\ (~IsSome(c.indicatorRef) \/ Blank(TheVal(c.indicatorRef)))
      [] k = "thresholdQuery" ->
            /\ InPlace(c) /\ c.indicatorType = "threshold"
            /\ (~IsSome(c.thresholdMetric) \/ ~HasQuery(Some(TheVal(c.thresholdMetric).source)))
      [] k = "thresholdValue" ->
            /\ InPlace(c) /\ c.indicatorType = "threshold"
            /\ \/ ~IsSome(c.thresholdMetric)
               \/ TheVal(c.thresholdMetric).value.t \in {"undefined", "null"}
      [] k = "ratioTotal" ->
            /\ InPlace(c) /\ c.indicatorType = "ratio"
            /\ (~IsSome(c.ratioMetric) \/ ~HasQuery(Some(TheVal(c.ratioMetric).total)))
      [] k = "ratioGoodBad" ->
            /\ InPlace(c) /\ c.indicatorType = "ratio"
            /\ \/ ~IsSome(c.ratioMetric)
               \/ ~HasQuery(TheVal(c.ratioMetric).good) /\ ~HasQuery(TheVal(c.ratioMetric).bad)

ViolatedRules(c) == {k \in ValidationKeys : RuleFails(k, c)}

---------------------------------------------------------------------------
(* Claims on the validator (SpecValidator) *)

\* C1: for every configuration the validator returns for, the result is empty
\* exactly when every rule of section 4.1 passes, and the keys reported are
\* exactly the keys of the violated rules; so a configuration violating one
\* rule only yields that rule's key and no other (no rule short-circuits
\* another).  "Outside [0,1]" is below 0 or above 1 as numbers compare.
C1_ResultIsTheViolatedRules ==
    pc = "validated" =>
        /\ (Keys(errors) = {}) <=> (\A k \in ValidationKeys : ~RuleFails(k, sloState))
        /\ \A k \in ValidationKeys :
              ViolatedRules(sloState) = {k} => Keys(errors) = {k}
        /\ Keys(errors) = ViolatedRules(sloState)

C1_Witness ==
    /\ pc = "validated"
    /\ ViolatedRules(sloState) = {"ratioGoodBad"}
    /\ Keys(errors) = {"ratioGoodBad"}

\* C5: the name rule accepts exactly the kebab-case names: a blank name gets
\* 'Name is required'; a non-blank name that has an uppercase letter, an
\* underscore, a leading or trailing hyphen or surrounding white space gets
\* the pattern message; "my-service", "a", "a1-b2" get no `name` key.
C5_NameRule ==
    pc = "validated" =>
        LET n == sloState.name
            bad == \/ \E i \in 1..Len(n) : CharAt(n, i) \in UpperChars \cup {"_"}
                   \/ CharAt(n, 1) = "-"
                   \/ CharAt(n, Len(n)) = "-"
                   \/ CharAt(n, 1) \in WhiteSpaceChars
                   \/ CharAt(n, Len(n)) \in WhiteSpaceChars
        IN  /\ ("name" \notin Keys(errors)) <=> IsKebab(n)
            /\ Blank(n) => "name" \in Keys(errors) /\ errors["name"] = "Name is required"
            /\ ~Blank(n) /\ bad =>
                  /\ "name" \in Keys(errors)
                  /\ errors["name"] = "Must be lowercase alphanumeric (kebab-case)"
            /\ n \in {"my-service", "a", "a1-b2"} => "name" \notin Keys(errors)
            /\ n \in {"My-Service", "-abc", "abc-", "ab_c", ""} => "name" \in Keys(errors)

C5_Witness ==
    /\ pc = "validated"
    /\ sloState.name = "abc-"
    /\ "name" \in Keys(errors)
    /\ errors["name"] = "Must be lowercase alphanumeric (kebab-case)"

\* C6: for kind SLO the `target` key is reported exactly when the target is
\* undefined or null ('Target is required') or a number below 0 or above 1
\* (range message); 0 and 1 themselves are not reported.
C6_TargetRule ==
    pc = "validated" /\ sloState.kind = "SLO" =>
        LET t == sloState.target
            missing == t.t \in {"undefined", "null"}
            outside == t.t = "number" /\ (t.n < 0 \/ t.n > t.d)
        IN  /\ ("target" \in Keys(errors)) <=> (missing \/ outside)
            /\ missing => errors["target"] = "Target is required"
            /\ outside => errors["target"] = "Must be between 0.0 and 1.0"
            /\ t \in {IntNum(0), IntNum(1)} => "target" \notin Keys(errors)

C6_Witness ==
    /\ pc = "validated"
    /\ sloState.kind = "SLO"
    /\ sloState.target = IntNum(1)
    /\ "target" \notin Keys(errors)

\* C8: for kind SLO the `timeWindowCount` key is reported exactly when the
\* count is falsy (0, missing, not-a-number), negative or not an integer;
\* no positive integer count is reported.
C8_TimeWindowCountRule ==
    pc = "validated" /\ sloState.kind = "SLO" =>
        LET c == sloState.timeWindowCount
            falsy == c.t \in {"undefined", "null", "NaN"} \/ (c.t = "number" /\ c.n = 0)
            negative == c.t = "number" /\ c.n < 0
            fractional == c.t = "number" /\ c.n % c.d # 0
        IN  /\ ("timeWindowCount" \in Keys(errors)) <=> (falsy \/ negative \/ fractional)
            /\ PositiveInteger(c) => "timeWindowCount" \notin Keys(errors)
            /\ "timeWindowCount" \in Keys(errors) =>
                  errors["timeWindowCount"] = "Must be a positive integer"

C8_Witness ==
    /\ pc = "validated"
    /\ sloState.kind = "SLO"
    /\ sloState.timeWindowCount = Num(5, 2)
    /\ "timeWindowCount" \in Keys(errors)

\* C9: each key is reported only where its rule applies: service, target and
\* timeWindowCount only for kind SLO; indicatorRef only for SLO in reference
\* mode; the threshold and ratio keys only for kind SLI or SLO inline, and
\* there they are checked whatever the leftover indicatorMode of an SLI is;
\* threshold keys and ratio keys never occur together.
C9_KeysOnlyWhereApplicable ==
    pc = "validated" =>
        LET ks == Keys(errors)
            thresholdKeys == {"thresholdQuery", "thresholdValue"}
            ratioKeys == {"ratioTotal", "ratioGoodBad"}
        IN  /\ ks \cap {"service", "target", "timeWindowCount"} # {} => sloState.kind = "SLO"
            /\ "indicatorRef" \in ks =>
                  sloState.kind = "SLO" /\ sloState.indicatorMode = "reference"
            /\ ks \cap (thresholdKeys \cup ratioKeys) # {} => InPlace(sloState)
            /\ sloState.kind = "SLI" =>
                  ks \cap {"service", "target", "timeWindowCount", "indicatorRef"} = {}
            /\ sloState.kind = "SLO" /\ sloState.indicatorMode = "reference" =>
                  ks \cap (thresholdKeys \cup ratioKeys) = {}
            /\ sloState.kind = "SLI" /\ sloState.indicatorMode = "reference" =>
                  \A k \in thresholdKeys \cup ratioKeys : k \in ks <=> RuleFails(k, sloState)
            /\ ~(ks \cap thresholdKeys # {} /\ ks \cap ratioKeys # {})

\* an SLI whose leftover mode is reference still has its metrics validated
C9_Witness ==
    /\ pc = "validated"
    /\ sloState.kind = "SLI"
    /\ sloState.indicatorMode = "reference"
    /\ Blank(sloState.service)
    /\ "thresholdQuery" \in Keys(errors)
    /\ "service" \notin Keys(errors)

\* C10: where metric validation applies and indicatorType is threshold,
\* thresholdQuery is reported exactly when the threshold metric is absent or
\* its query is blank, and thresholdValue exactly when the metric is absent
\* or its value is undefined or null; a value of 0 is never reported.
C10_ThresholdRule ==
    pc = "validated" /\ InPlace(sloState) /\ sloState.indicatorType = "threshold" =>
        LET tm == sloState.thresholdMetric
            ks == Keys(errors)
        IN  /\ ("thresholdQuery" \in ks) <=>
                  (~IsSome(tm) \/ Blank(TheVal(TheVal(tm).source.query)))
            /\ ("thresholdValue" \in ks) <=>
                  (~IsSome(tm) \/ TheVal(tm).value.t \in {"undefined", "null"})
            /\ IsSome(tm) /\ TheVal(tm).value = IntNum(0) => "thresholdValue" \notin ks
            /\ "thresholdQuery" \in ks => errors["thresholdQuery"] = "Query is required"
            /\ "thresholdValue" \in ks =>
                  errors["thresholdValue"] = "Threshold value is required"

C10_Witness ==
    /\ pc = "validated"
    /\ InPlace(sloState)
    /\ sloState.indicatorType = "threshold"
    /\ IsSome(sloState.thresholdMetric)
    /\ TheVal(sloState.thresholdMetric).value = IntNum(0)
    /\ Blank(TheVal(TheVal(sloState.thresholdMetric).source.query))
    /\ Keys(errors) = {"thresholdQuery"}

\* C11: where metric validation applies and indicatorType is ratio,
\* ratioTotal is reported exactly when the ratio metric is absent or its
\* total query is blank, whatever good and bad are; ratioGoodBad is reported
\* exactly when neither a non-blank good query nor a non-blank bad query is
\* there; a total with only good, or only bad, yields neither key.
C11_RatioRule ==
    pc = "validated" /\ InPlace(sloState) /\ sloState.indicatorType = "ratio" =>
        LET rm == sloState.ratioMetric
            ks == Keys(errors)
            totalThere == IsSome(rm) /\ ~Blank(TheVal(TheVal(rm).total.query))
            goodThere == IsSome(rm) /\ HasQuery(TheVal(rm).good)
            badThere == IsSome(rm) /\ HasQuery(TheVal(rm).bad)
        IN  /\ ("ratioTotal" \in ks) <=> ~totalThere
            /\ ("ratioGoodBad" \in ks) <=> (~goodThere /\ ~badThere)
            /\ totalThere /\ (goodThere \/ badThere) =>
                  ks \cap {"ratioTotal", "ratioGoodBad"} = {}
            /\ "ratioTotal" \in ks => errors["ratioTotal"] = "Total query is required"
            /\ "ratioGoodBad" \in ks =>
                  errors["ratioGoodBad"] = "Either Good or Bad metric query is required"

\* total and bad are there, good is not: neither key
C11_Witness ==
    /\ pc = "validated"
    /\ InPlace(sloState)
    /\ sloState.indicatorType = "ratio"
    /\ IsSome(sloState.ratioMetric)
    /\ ~IsSome(TheVal(sloState.ratioMetric).good)
    /\ HasQuery(TheVal(sloState.ratioMetric).bad)
    /\ ~Blank(TheVal(TheVal(sloState.ratioMetric).total.query))
    /\ Keys(errors) \cap {"ratioTotal", "ratioGoodBad"} = {}

\* C12: validateState never raises: for every configuration, those with a
\* metric source whose query is missing included, the call returns.
C12_NeverRaises == pc # "threw"

---------------------------------------------------------------------------
(* Claims on the renderer (SpecRenderer) *)

\* line begins with prefix
StartsWith(line, prefix) ==
    Len(line) >= Len(prefix) /\ SubSeq(line, 1, Len(prefix)) = prefix

\* the number of lines a value takes when it is written into the text
NumLines(str) == Cardinality({i \in 1..Len(str) : SubSeq(str, i, i) = "\n"}) + 1

\* the rendering of the default configuration
DefaultYaml ==
    << "apiVersion: openslo/v1",
       "kind: SLO",
       "metadata:",
       "  name: my-service-availability",
       "  displayName: My Service Availability",
       "spec:",
       "  description: Availability SLO for the core API service",
       "  service: core-api",
       "  budgetingMethod: occurrences",
       "  objectives:",
       "    - displayName: My Service Availability",
       "      target: 0.999",
       "      timeWindow:",
       "        - rolling: true",
       "          count: 28",
       "          unit: d",
       "  indicator:",
       "    thresholdMetric:",
       "      metricSource:",
       "        type: prometheus",
       "        spec:",
       "          query: >-",
       "            http_request_duration_seconds_bucket{le=\"0.5\"}",
       "      operator: lte",
       "      value: 0.5" >>

\* C13: for every configuration of kind SLO, valid or not, the rendered
\* text carries its keys in this order and at this indentation: apiVersion,
\* kind: SLO, metadata:, name, displayName, the labels if any, spec:,
\* description, service, budgetingMethod, objectives:, - displayName,
\* target, timeWindow:, - rolling, count, unit, then the indicator section;
\* and the default configuration renders with apiVersion: openslo/v1,
\* kind: SLO, metadata:, name: my-service-availability and an indicator:
\* block that holds thresholdMetric:.
C13_SloKeyOrder ==
    pc = "rendered" /\ sloState.kind = "SLO" =>
        LET y == yamlOutput
            c == sloState
            labelled == ~Blank(c.app)
            pApi == 1
            pKind == pApi + NumLines(c.apiVersion)
            pMeta == pKind + 1
            pName == pMeta + 1
            pDisplay == pName + NumLines(c.name)
            pLabels == pDisplay + NumLines(c.displayName)
            pSpec == IF labelled THEN pLabels + 1 + NumLines(c.app) ELSE pLabels
            pDesc == pSpec + 1
            pService == pDesc + NumLines(c.description)
            pBudget == pService + NumLines(c.service)
            pObjectives == pBudget + NumLines(c.budgetingMethod)
            pObjName == pObjectives + 1
            pTarget == pObjName + NumLines(c.displayName)
            pWindow == pTarget + 1
            pRolling == pWindow + 1
            pCount == pRolling + 1
            pUnit == pCount + 1
            pIndicator == pUnit + NumLines(c.timeWindowUnit)
        IN  /\ Len(y) >= pIndicator
            /\ StartsWith(y[pApi], "apiVersion: ")
            /\ y[pKind] = "kind: SLO"
            /\ y[pMeta] = "metadata:"
            /\ StartsWith(y[pName], "  name: ")
            /\ StartsWith(y[pDisplay], "  displayName: ")
            /\ labelled => y[pLabels] = "  labels:" /\ StartsWith(y[pLabels + 1], "    app: ")
            /\ y[pSpec] = "spec:"
            /\ StartsWith(y[pDesc], "  description: ")
            /\ StartsWith(y[pService], "  service: ")
            /\ StartsWith(y[pBudget], "  budgetingMethod: ")
            /\ y[pObjectives] = "  objectives:"
            /\ StartsWith(y[pObjName], "    - displayName: ")
            /\ StartsWith(y[pTarget], "      target: ")
            /\ y[pWindow] = "      timeWindow:"
            /\ StartsWith(y[pRolling], "        - rolling: ")
            /\ StartsWith(y[pCount], "          count: ")
            /\ StartsWith(y[pUnit], "          unit: ")
            /\ y[pIndicator] = "  indicator:" \/ StartsWith(y[pIndicator], "  indicatorRef: ")
            /\ c = DEFAULT_SLO_STATE => y = DefaultYaml

C13_Witness ==
    /\ pc = "rendered"
    /\ sloState = DEFAULT_SLO_STATE
    /\ yamlOutput = DefaultYaml

\* some line of the text is the given line
HasLine(text, line) == \E i \in 1..Len(text) : text[i] = line

\* some line of the text, leading white space aside, begins with the key
HasKey(text, key) == \E i \in 1..Len(text) : StartsWith(TrimStart(text[i]), key)

\* C14: for kind SLO in reference mode with a non-blank indicatorRef r, the
\* rendered text holds the line `  indicatorRef: r`, no `indicator:` key and
\* no thresholdMetric or ratioMetric block, whatever the indicator type and
\* the metric fields are.
C14_ReferenceRendering ==
    /\ pc = "rendered"
    /\ sloState.kind = "SLO"
    /\ sloState.indicatorMode = "reference"
    /\ IsSome(sloState.indicatorRef)
    /\ ~Blank(TheVal(sloState.indicatorRef))
    => /\ HasLine(yamlOutput, "  indicatorRef: " \o TheVal(sloState.indicatorRef))
       /\ ~HasKey(yamlOutput, "indicator:")
       /\ ~HasKey(yamlOutput, "thresholdMetric:")
       /\ ~HasKey(yamlOutput, "ratioMetric:")
       /\ yamlOutput[Len(yamlOutput)] = "  indicatorRef: " \o TheVal(sloState.indicatorRef)

\* a reference rendered while a ratio metric is left over in the configuration
C14_Witness ==
    /\ pc = "rendered"
    /\ sloState.kind = "SLO"
    /\ sloState.indicatorMode = "reference"
    /\ sloState.indicatorRef = Some("worker-latency-sli")
    /\ sloState.indicatorType = "ratio"
    /\ IsSome(sloState.ratioMetric)
    /\ HasLine(yamlOutput, "  indicatorRef: worker-latency-sli")

\* C15: for every configuration of kind SLO the indicator section follows
\* indicatorMode alone: the key indicatorRef: in reference mode, the key
\* indicator: with the indicator body in inline mode, and exactly one of
\* the two keys.
C15_SectionByModeAlone ==
    pc \in {"rendered", "app"} /\ sloState.kind = "SLO" =>
        /\ sloState.indicatorMode = "reference" =>
              HasKey(yamlOutput, "indicatorRef:") /\ ~HasKey(yamlOutput, "indicator:")
        /\ sloState.indicatorMode = "inline" =>
              HasKey(yamlOutput, "indicator:") /\ ~HasKey(yamlOutput, "indicatorRef:")

\* the positions of a line in the text
LinesEqual(text, line) == {i \in 1..Len(text) : text[i] = line}

\* the metric block is written: kind SLI, or kind SLO without a reference shown
BlockRendered(c) ==
    \/ c.kind = "SLI"
    \/ ~(c.indicatorMode = "reference" /\ IsSome(c.indicatorRef) /\ TheVal(c.indicatorRef) # "")

\* the indentation of the metric block
BlockIndent(c) == IF c.kind = "SLI" THEN "  " ELSE "    "

\* the entries of the rendered ratio block: good: only if a good source is
\* set, bad: only if a bad source is set, total: always, in this order and at
\* the indentation of the block
RatioEntriesInOrder(y, c) ==
    LET rm == TheVal(c.ratioMetric)
        pad == BlockIndent(c)
        head == LinesEqual(y, pad \o "ratioMetric:")
        good == LinesEqual(y, pad \o "  good:")
        bad == LinesEqual(y, pad \o "  bad:")
        total == LinesEqual(y, pad \o "  total:")
    IN  /\ Cardinality(head) = 1
        /\ Cardinality(good) = (IF IsSome(rm.good) THEN 1 ELSE 0)
        /\ Cardinality(bad) = (IF IsSome(rm.bad) THEN 1 ELSE 0)
        /\ Cardinality(total) = 1
        /\ \A h \in head, t \in total : h < t
        /\ \A h \in head, g \in good : g = h + 1
        /\ \A h \in head, b \in bad : good = {} => b = h + 1
        /\ \A g \in good, b \in bad : g < b
        /\ \A g \in good, t \in total : g < t
        /\ \A b \in bad, t \in total : b < t
        /\ \A i \in good \cup bad \cup total : y[i + 1] = pad \o "    metricSource:"

\* the first line of the rendered ratio block
RatioBlockStart(y, c) == CHOOSE i \in 1..Len(y) : y[i] = BlockIndent(c) \o "ratioMetric:"

\* C16 as stated: for every rendered ratio block the entries are good: only
\* if set, bad: only if set, and total:, in this order and at unchanged
\* indentation, an unset good or bad contributes no line, and no line of the
\* block is blank or white space only.
C16_NoBlankLineInBlock ==
    /\ pc = "rendered"
    /\ sloState.indicatorType = "ratio"
    /\ IsSome(sloState.ratioMetric)
    /\ BlockRendered(sloState)
    => /\ RatioEntriesInOrder(yamlOutput, sloState)
       /\ \A i \in RatioBlockStart(yamlOutput, sloState)..Len(yamlOutput) :
             ~Blank(yamlOutput[i])

\* C16 as amended: for every rendered ratio block the entries are good: only
\* if set, bad: only if set, and total:, in this order and at unchanged
\* indentation, an unset good or bad contributes no line, and no line of the
\* block before its last is blank or white space only; the last line, the end
\* of the total query, is white space only exactly when the total query is
\* empty or ends in a line of white space.
C16_NoBlankLineBeforeLast ==
    /\ pc = "rendered"
    /\ sloState.indicatorType = "ratio"
    /\ IsSome(sloState.ratioMetric)
    /\ BlockRendered(sloState)
    => LET y == yamlOutput
           q == Text(TheVal(TheVal(sloState.ratioMetric).total.query))
       IN  /\ RatioEntriesInOrder(y, sloState)
           /\ \A i \in RatioBlockStart(y, sloState)..(Len(y) - 1) : ~Blank(y[i])
           /\ Blank(y[Len(y)]) <=> Blank(q[Len(q)])

\* only bad is set: bad: follows ratioMetric: directly
C16_Witness ==
    /\ pc = "rendered"
    /\ sloState.kind = "SLI"
    /\ sloState.indicatorType = "ratio"
    /\ IsSome(sloState.ratioMetric)
    /\ ~IsSome(TheVal(sloState.ratioMetric).good)
    /\ IsSome(TheVal(sloState.ratioMetric).bad)
    /\ \E i \in 1..(Len(yamlOutput) - 1) :
          yamlOutput[i] = "  ratioMetric:" /\ yamlOutput[i + 1] = "    bad:"
    /\ ~HasKey(yamlOutput, "good:")

\* the positions of the lines that carry the key, leading white space aside
KeyLines(text, key) == {i \in 1..Len(text) : StartsWith(TrimStart(text[i]), key)}

\* C17: for both kinds, a blank app (empty or white space only) leaves no
\* labels: key anywhere in the rendered text; a non-blank app gives exactly
\* one labels: line, followed by `app: <value>`, under metadata: after
\* displayName and before spec:.
C17_Labels ==
    pc = "rendered" =>
        LET y == yamlOutput
            app == sloState.app
            labels == KeyLines(y, "labels:")
        IN  /\ Blank(app) => labels = {} /\ KeyLines(y, "app:") = {}
            /\ ~Blank(app) =>
                  /\ Cardinality(labels) = 1
                  /\ \A i \in labels :
                        /\ y[i] = "  labels:"
                        /\ y[i + 1] = "    app: " \o app
                        /\ y[i + 2] = "spec:"
                        /\ StartsWith(y[i - 1], "  displayName: ")
                        /\ \E m \in 1..(i - 1) :
                              /\ y[m] = "metadata:"
                              /\ \A k \in (m + 1)..(i - 1) : StartsWith(y[k], "  ")

C17_Witness ==
    /\ pc = "rendered"
    /\ sloState.kind = "SLI"
    /\ sloState.app = "payments"
    /\ yamlOutput[6] = "  labels:"
    /\ yamlOutput[7] = "    app: payments"

\* the lines of the query q stand in the text right after position i, each
\* behind the indentation pad
QueryVerbatimAfter(y, i, pad, q) ==
    LET lines == Text(q)
    IN  \A k \in 1..Len(lines) : i + k <= Len(y) /\ y[i + k] = pad \o lines[k]

\* the entry that begins with keyLine carries the query q verbatim under
\* its `query: >-` line
EntryVerbatim(y, keyLine, queryLine, pad, q) ==
    \E i \in 1..Len(y) :
        /\ y[i] = keyLine
        /\ i + 4 <= Len(y)
        /\ y[i + 4] = queryLine
        /\ QueryVerbatimAfter(y, i + 4, pad, q)

\* C18: the query of a threshold or ratio source is rendered verbatim in its
\* block scalar: for every non-empty query, multi-line queries and queries
\* with empty lines or leading white space included, every line of the query
\* stands in the text, unmodified and none dropped, at one fixed indentation
\* under `query: >-`.
C18_QueryVerbatim ==
    pc = "rendered" /\ BlockRendered(sloState) =>
        LET y == yamlOutput
            c == sloState
            ind == BlockIndent(c)
        IN  /\ c.indicatorType = "threshold" /\ IsSome(c.thresholdMetric) =>
                  LET q == TheVal(TheVal(c.thresholdMetric).source.query)
                  IN  q # "" =>
                        \E i \in 1..Len(y) :
                            /\ y[i] = ind \o "      query: >-"
                            /\ QueryVerbatimAfter(y, i, ind \o "        ", q)
            /\ c.indicatorType = "ratio" /\ IsSome(c.ratioMetric) =>
                  LET rm == TheVal(c.ratioMetric)
                      entry(key, src) ==
                          TheVal(src.query) # "" =>
                              EntryVerbatim(y, ind \o "  " \o key \o ":",
                                            ind \o "        query: >-",
                                            ind \o "          ", TheVal(src.query))
                  IN  /\ IsSome(rm.good) => entry("good", TheVal(rm.good))
                      /\ IsSome(rm.bad) => entry("bad", TheVal(rm.bad))
                      /\ entry("total", rm.total)

---------------------------------------------------------------------------
(* Claims on what the editor renders (Spec) *)

\* the text carries the not-a-number value as its target or threshold value
CarriesNaN(text) ==
    \E i \in 1..Len(text) : TrimStart(text[i]) \in {"target: NaN", "value: NaN"}

\* C19: no rendered text carries the not-a-number value as its target: or
\* value:, whatever is typed into or cleared from the target and threshold
\* value fields, and so no text that is copied, downloaded or saved with a
\* configuration does.
C19_NoNaNRendered ==
    pc = "app" =>
        /\ ~CarriesNaN(yamlOutput)
        /\ IsSome(clipboard) => ~CarriesNaN(TheVal(clipboard))
        /\ IsSome(download) => ~CarriesNaN(TheVal(download).content)
        /\ \A i \in 1..Len(savedItems) : ~CarriesNaN(generateYaml(savedItems[i]))

\* C20: for every ratio configuration that passes validation, every good:
\* and bad: entry of the rendered text carries a non-blank query: the line
\* under its `query: >-` is there, inside the entry, and not blank.
C20_NoEmptyOptionalEntry ==
    pc = "app" /\ isValid /\ sloState.indicatorType = "ratio" =>
        LET y == yamlOutput
            ind == BlockIndent(sloState)
        IN  \A i \in LinesEqual(y, ind \o "  good:") \cup LinesEqual(y, ind \o "  bad:") :
                /\ i + 5 <= Len(y)
                /\ y[i + 4] = ind \o "        query: >-"
                /\ StartsWith(y[i + 5], ind \o "          ")
                /\ ~Blank(y[i + 5])

---------------------------------------------------------------------------
(* Claims on the editor's effect, library and switches (Spec) *)

\* the mapping and the text are those of the configuration
InStep(c, e, y) == e = validateState(c) /\ y = generateYaml(c)

DistinctIds(items) ==
    /\ \A i \in 1..Len(items) : items[i].id # ""
    /\ \A i, j \in 1..Len(items) : items[i].id = items[j].id => i = j

\* the identifier occurs in the items
InLibrary(items, id) == \E i \in 1..Len(items) : items[i].id = id

C23_StoredItemsValid ==
    pc = "app" =>
        \A i \in 1..Len(savedItems) : Keys(validateState(savedItems[i])) = {}

\* an item is in the library and the configuration edited since is invalid,
\* so that a save of it is refused
C23_Witness ==
    /\ pc = "app"
    /\ Len(savedItems) >= 1
    /\ Keys(validateState(savedItems[1])) = {}
    /\ ~isValid
    /\ sloState.id = savedItems[1].id

\* the identifier of the configuration, if it has one, is that of an item
IdInLibrary(c, items) == c.id # "" => InLibrary(items, c.id)

\* C24: a configuration with a non-empty identifier always has its item in
\* the library: deleting the item that carries the configuration's identifier
\* clears the identifier and changes nothing else of the configuration,
\* deleting another item leaves the configuration as it is, loading a
\* template clears the identifier; so a save that adds an item to the
\* library is the save of a configuration without identifier, and a save of
\* a configuration with an identifier updates the item that carries it.
C24_IdentifierHasItem ==
    [][ /\ IdInLibrary(sloState, savedItems)
        /\ IdInLibrary(sloState', savedItems')
        /\ \A i \in 1..Len(savedItems) :
              deleteFromLibrary(i, TRUE) =>
                 /\ ~InLibrary(savedItems', savedItems[i].id)
                 /\ sloState' = IF sloState.id = savedItems[i].id
                                THEN [sloState EXCEPT !.id = ""]
                                ELSE sloState
        /\ \A templateKey \in DOMAIN TEMPLATES :
              loadTemplate(templateKey) => sloState'.id = ""
        /\ saveToLibrary /\ isValid =>
              IF sloState.id = ""
              THEN Len(savedItems') = Len(savedItems) + 1
              ELSE /\ Len(savedItems') = Len(savedItems)
                   /\ InLibrary(savedItems, sloState.id) ]_vars

\* the item of the configuration was deleted and the configuration, its
\* identifier cleared, was saved again under a new identifier
C24_Witness ==
    /\ pc = "app"
    /\ Len(savedItems) = 1
    /\ uuids = 2
    /\ sloState.id = savedItems[1].id
    /\ sloState.id = randomUUID(2)

\* the metric structure that indicatorType selects is there
StructurePresent(c) ==
    /\ c.indicatorType \in {"threshold", "ratio"}
    /\ c.indicatorType = "threshold" => IsSome(c.thresholdMetric)
    /\ c.indicatorType = "ratio" =>
          /\ IsSome(c.ratioMetric)
          /\ "total" \in DOMAIN TheVal(c.ratioMetric)
          /\ TheVal(c.ratioMetric).total.type = "prometheus"

\* C25: in every state of the editor the metric structure selected by
\* indicatorType is present, thresholdMetric for threshold and ratioMetric
\* with its total source for ratio, the items of the library included; so
\* the metric block is not empty and the text of an in-place indicator (kind
\* SLI, or SLO inline) carries the head line of that block at the
\* indentation of its kind.
C25_StructurePresent ==
    pc = "app" =>
        /\ StructurePresent(sloState)
        /\ \A i \in 1..Len(savedItems) : StructurePresent(savedItems[i])
        /\ metricBlock(sloState) # <<>>
        /\ InPlace(sloState) =>
              HasLine(yamlOutput,
                      BlockIndent(sloState) \o sloState.indicatorType \o "Metric:")

\* the type switch to ratio initialised the missing ratioMetric of an
\* in-place indicator
C25_Witness ==
    /\ pc = "app"
    /\ InPlace(sloState)
    /\ sloState.indicatorType = "ratio"
    /\ IsSome(sloState.ratioMetric)
    /\ TheVal(sloState.ratioMetric) =
          [ total |-> MetricSource("prometheus", Some("")),
            good |-> Some(MetricSource("prometheus", Some(""))),
            bad |-> None ]
    /\ HasLine(yamlOutput, BlockIndent(sloState) \o "ratioMetric:")

\* the two configurations agree on every field outside the given ones
SameExcept(a, b, fields) ==
    /\ DOMAIN a = DOMAIN b
    /\ \A f \in (DOMAIN a) \ fields : a[f] = b[f]

\* a metric structure that is there is the same in the other configuration
StructuresKept(from, to) ==
    /\ IsSome(from.thresholdMetric) => to.thresholdMetric = from.thresholdMetric
    /\ IsSome(from.ratioMetric) => to.ratioMetric = from.ratioMetric

\* C26: the switches change their own field only: a kind switch changes
\* kind alone, a mode switch indicatorMode alone, a type switch indicatorType
\* and, if the structure it selects is missing, that structure, which it
\* sets to the defaults; it leaves the other structure alone and never
\* changes a structure that is there. So switching back gives the
\* configuration before the switch: all of it for kind and mode, and for the
\* type every field but a structure that was missing before.
C26_SwitchesKeepFields ==
    [][ /\ \A kind \in {"SLO", "SLI"} :
              setKind(kind) =>
                 /\ sloState'.kind = kind
                 /\ SameExcept(sloState', sloState, {"kind"})
                 /\ [sloState' EXCEPT !.kind = sloState.kind] = sloState
        /\ \A mode \in {"inline", "reference"} :
              setIndicatorMode(mode) =>
                 /\ sloState'.indicatorMode = mode
                 /\ SameExcept(sloState', sloState, {"indicatorMode"})
                 /\ [sloState' EXCEPT !.indicatorMode = sloState.indicatorMode] = sloState
        /\ \A type \in {"threshold", "ratio"} :
              handleIndicatorTypeChange(type) =>
                 /\ sloState'.indicatorType = type
                 /\ SameExcept(sloState', sloState,
                               {"indicatorType", "thresholdMetric", "ratioMetric"})
                 /\ StructuresKept(sloState, sloState')
                 /\ IF type = "threshold"
                    THEN /\ sloState'.ratioMetric = sloState.ratioMetric
                         /\ ~IsSome(sloState.thresholdMetric) =>
                               sloState'.thresholdMetric = Some(defaultThresholdMetric)
                    ELSE /\ sloState'.thresholdMetric = sloState.thresholdMetric
                         /\ ~IsSome(sloState.ratioMetric) =>
                               sloState'.ratioMetric = Some(defaultRatioMetric)
                 /\ LET back == indicatorTypeUpdater(sloState', sloState.indicatorType)
                    IN  /\ back.indicatorType = sloState.indicatorType
                        /\ SameExcept(back, sloState, {"thresholdMetric", "ratioMetric"})
                        /\ StructuresKept(sloState, back) ]_vars

\* threshold, ratio and threshold again after a name was entered: the name
\* and the thresholdMetric are those from before the switches, the
\* ratioMetric is the one the switch to ratio initialised
C26_Witness ==
    /\ pc = "app"
    /\ steps = 3
    /\ sloState.name = "checkout"
    /\ sloState.indicatorType = "threshold"
    /\ sloState.thresholdMetric = DEFAULT_SLO_STATE.thresholdMetric
    /\ sloState.ratioMetric = Some(defaultRatioMetric)
    /\ SameExcept(sloState, DEFAULT_SLO_STATE, {"name", "ratioMetric"})

====
